---- MODULE Spec2Model ----
(***************************************************************************)
(* Verification model of the Powerbase relational core:                    *)
(*   - EditEngineService  (debounced write queue)                          *)
(*   - BidirectionalSyncService (diff-based back-link sync)                *)
(*   - RelationalTableView.handleUpdateRelation / handleUpdateCell         *)
(* Strings are modelled structurally so that parsing, formatting, case     *)
(* folding and link resolution are real computations.                      *)
(***************************************************************************)
EXTENDS Integers, Sequences, FiniteSets, TLC

----------------------------------------------------------------------------
(* Bounds                                                                  *)

MaxEdits == 3
MaxSyncEdits == 2
MaxTimers == 3
MaxInflight == 2
MaxRuns == 2
MaxDiffLen == 2
MaxListLen == 2
MaxRollupLinks == 3
MaxValues == 3
MaxRows == 3

----------------------------------------------------------------------------
(* Strings.  A string is a record                                          *)
(*   kind  : "wiki" for "[[...]]", "text" for plain text, "num" for a     *)
(*           value that is not a string at all (typeof item !== 'string') *)
(*   dir   : TRUE when the text carries the folder part ("tasks/T1")      *)
(*   name  : the basename                                                  *)
(*   up    : TRUE when written in the file's own (mixed) case, FALSE when *)
(*           lower-cased                                                   *)
(*   ext   : TRUE when the text ends in ".md"                              *)
(*   alias : TRUE when a wikilink carries a "|display" part                *)

Str(kind, dir, name, up, ext, alias) ==
    [kind |-> kind, dir |-> dir, name |-> name, up |-> up, ext |-> ext, alias |-> alias]

\* the empty string ''
EmptyStr == Str("text", FALSE, "", FALSE, FALSE, FALSE)

\* String.prototype.toLowerCase
ToLowerCase(s) == [s EXCEPT !.up = FALSE]

\* documents of the vault and the two properties of the bidi rule
Sources == {"s1", "s2"}
Targets == {"t1"}
Files == Sources \cup Targets
WatchedProp == "rel"
ReverseProp == "back"
PlainProp == "note"
Props == {WatchedProp, ReverseProp, PlainProp}
NoFile == "nofile"

\* TFile.path of a document: folder/basename.md in the file's own case
FilePath(f) == Str("text", TRUE, f, TRUE, TRUE, FALSE)

\* ParseService.formatAsWikiLink: "[[" + path without ".md" + "]]"
FormatAsWikiLink(path) == [path EXCEPT !.kind = "wiki", !.ext = FALSE, !.alias = FALSE]

\* ParseService.parseWikiLink: null unless the text is a wikilink; the link
\* path is the part before "|", without a trailing ".md"
ParseWikiLink(s) ==
    IF s.kind = "wiki"
    THEN [ok |-> TRUE, path |-> Str("text", s.dir, s.name, s.up, FALSE, FALSE)]
    ELSE [ok |-> FALSE, path |-> EmptyStr]

\* NoteSearchService.resolveWikiLink -> metadataCache.getFirstLinkpathDest:
\* case-insensitive, with or without folder and extension
ResolveWikiLink(linkPath) ==
    IF linkPath.name \in Files THEN linkPath.name ELSE NoFile

----------------------------------------------------------------------------
(* Property values: Null (absent), a scalar, or a list of items            *)

NullV == [t |-> "null", items |-> <<>>]
ScalarV(s) == [t |-> "scalar", items |-> <<s>>]
ListV(items) == [t |-> "list", items |-> items]

\* Array.prototype.filter
Filter(seq, Keep(_)) == SelectSeq(seq, Keep)

Range(seq) == {seq[i] : i \in DOMAIN seq}

----------------------------------------------------------------------------
(* BidirectionalSyncService                                                *)

\* diffLinks.normalize
Normalize(link) ==
    LET parsed == ParseWikiLink(link)
    IN IF parsed.ok THEN ToLowerCase(parsed.path) ELSE ToLowerCase(link)

\* variant of DiffLinks: removed is computed on the raw texts
DiffLinksRawRemoved(oldLinks, newLinks) ==
    LET oldPaths == {Normalize(l) : l \in Range(oldLinks)}
        NotInOld(link) == Normalize(link) \notin oldPaths
        NotInNew(link) == link \notin Range(newLinks)
    IN [added |-> Filter(newLinks, NotInOld), removed |-> Filter(oldLinks, NotInNew)]

\* diffLinks
DiffLinks(oldLinks, newLinks) ==
    LET oldPaths == {Normalize(l) : l \in Range(oldLinks)}
        newPaths == {Normalize(l) : l \in Range(newLinks)}
        NotInOld(link) == Normalize(link) \notin oldPaths
        NotInNew(link) == Normalize(link) \notin newPaths
    IN [added |-> Filter(newLinks, NotInOld), removed |-> Filter(oldLinks, NotInNew)]

\* backPath of addBackLink / removeBackLink
BackPath(backLink) ==
    LET backParsed == ParseWikiLink(backLink)
    IN IF backParsed.ok THEN ToLowerCase(backParsed.path) ELSE EmptyStr

\* variant of SameBackLink: the item's path is compared without lower-casing it
SameBackLinkCaseSensitive(item, backLink) ==
    /\ item.kind # "num"
    /\ ParseWikiLink(item).ok
    /\ ParseWikiLink(item).path = BackPath(backLink)

\* the item test shared by addBackLink (some) and removeBackLink (filter)
SameBackLink(item, backLink) ==
    /\ item.kind # "num"
    /\ ParseWikiLink(item).ok
    /\ ToLowerCase(ParseWikiLink(item).path) = BackPath(backLink)

\* variant of AddBackLinkFn: a present non-list value is replaced by a list
AddBackLinkFnOverwrite(existing, backLink) ==
    IF existing.t = "list"
    THEN IF \E i \in DOMAIN existing.items : SameBackLink(existing.items[i], backLink)
         THEN existing
         ELSE ListV(existing.items \o <<backLink>>)
    ELSE ListV(<<backLink>>)

\* variant of AddBackLinkFn: the list is rebuilt from the new back-link alone
AddBackLinkFnDropOthers(existing, backLink) ==
    IF existing.t = "list"
    THEN IF \E i \in DOMAIN existing.items : SameBackLink(existing.items[i], backLink)
         THEN existing
         ELSE ListV(<<backLink>>)
    ELSE IF existing.t = "null"
         THEN ListV(<<backLink>>)
         ELSE existing

\* variant of AddBackLinkFn: the back-link is put in front of the list
AddBackLinkFnPrepend(existing, backLink) ==
    IF existing.t = "list"
    THEN IF \E i \in DOMAIN existing.items : SameBackLink(existing.items[i], backLink)
         THEN existing
         ELSE ListV(<<backLink>> \o existing.items)
    ELSE IF existing.t = "null"
         THEN ListV(<<backLink>>)
         ELSE existing

\* the processFrontMatter callback of addBackLink, as a function of fm[propertyName]
AddBackLinkFn(existing, backLink) ==
    IF existing.t = "list"
    THEN IF \E i \in DOMAIN existing.items : SameBackLink(existing.items[i], backLink)
         THEN existing
         ELSE ListV(existing.items \o <<backLink>>)
    ELSE IF existing.t = "null"
         THEN ListV(<<backLink>>)
         ELSE existing

\* variant of RemoveBackLinkFn: only the first matching entry is removed
RemoveBackLinkFnFirstOnly(existing, backLink) ==
    IF existing.t # "list" THEN existing
    ELSE LET hits == {i \in DOMAIN existing.items : SameBackLink(existing.items[i], backLink)}
         IN IF hits = {} THEN existing
            ELSE LET first == CHOOSE i \in hits : \A j \in hits : i <= j
                 IN ListV([i \in 1..(Len(existing.items) - 1) |->
                              IF i < first THEN existing.items[i] ELSE existing.items[i + 1]])

\* the processFrontMatter callback of removeBackLink
RemoveBackLinkFn(existing, backLink) ==
    IF existing.t # "list" THEN existing
    ELSE LET Other(item) == ~SameBackLink(item, backLink)
             filtered == Filter(existing.items, Other)
         IN IF Len(filtered) # Len(existing.items) THEN ListV(filtered) ELSE existing

\* variant of SyncBackLinks: the calls go to the watched property itself
SyncBackLinksOnWatched(sourceFile, propertyName, oldLinks, newLinks) ==
    LET diff == DiffLinks(oldLinks, newLinks)
        Resolvable(link) ==
            /\ ParseWikiLink(link).ok
            /\ ResolveWikiLink(ParseWikiLink(link).path) # NoFile
        Call(kind, link) ==
            [kind |-> kind, file |-> ResolveWikiLink(ParseWikiLink(link).path),
             prop |-> WatchedProp, backLink |-> FormatAsWikiLink(FilePath(sourceFile)),
             src |-> sourceFile]
        adds == Filter(diff.added, Resolvable)
        rems == Filter(diff.removed, Resolvable)
    IN [i \in 1..Len(adds) |-> Call("add", adds[i])]
       \o [i \in 1..Len(rems) |-> Call("remove", rems[i])]

\* variant of SyncBackLinks: a link that does not parse as a wikilink is not
\* skipped, its text is resolved as it stands
SyncBackLinksUnparsed(sourceFile, propertyName, oldLinks, newLinks) ==
    LET diff == DiffLinks(oldLinks, newLinks)
        Resolvable(link) == link.kind # "num" /\ ResolveWikiLink(link) # NoFile
        Call(kind, link) ==
            [kind |-> kind, file |-> ResolveWikiLink(link),
             prop |-> propertyName, backLink |-> FormatAsWikiLink(FilePath(sourceFile)),
             src |-> sourceFile]
        adds == Filter(diff.added, Resolvable)
        rems == Filter(diff.removed, Resolvable)
    IN [i \in 1..Len(adds) |-> Call("add", adds[i])]
       \o [i \in 1..Len(rems) |-> Call("remove", rems[i])]

\* syncBackLinks: the processFrontMatter calls it issues, in issue order
\* (added targets first, then removed targets); unparsable and unresolvable
\* links are skipped
SyncBackLinks(sourceFile, propertyName, oldLinks, newLinks) ==
    LET diff == DiffLinks(oldLinks, newLinks)
        sourceBackLink == FormatAsWikiLink(FilePath(sourceFile))
        Resolvable(link) ==
            /\ ParseWikiLink(link).ok
            /\ ResolveWikiLink(ParseWikiLink(link).path) # NoFile
        Call(kind, link) ==
            [kind |-> kind, file |-> ResolveWikiLink(ParseWikiLink(link).path),
             prop |-> propertyName, backLink |-> sourceBackLink, src |-> sourceFile]
        adds == Filter(diff.added, Resolvable)
        rems == Filter(diff.removed, Resolvable)
    IN [i \in 1..Len(adds) |-> Call("add", adds[i])]
       \o [i \in 1..Len(rems) |-> Call("remove", rems[i])]

\* what one in-flight back-link call does to the property when it runs
Callback(op, existing) ==
    IF op.kind = "add" THEN AddBackLinkFn(existing, op.backLink)
    ELSE RemoveBackLinkFn(existing, op.backLink)

----------------------------------------------------------------------------
(* EditEngineService                                                       *)

NoTimer == 0

\* variant of QueueAfter: a queued edit with the same key keeps its first value
QueueAfterKeepFirst(q, args) ==
    IF \E i \in DOMAIN q : q[i].file = args.file /\ q[i].prop = args.prop
    THEN q
    ELSE Append(q, args)

\* variant of QueueAfter: no dedupe, every edit is pushed
QueueAfterPush(q, args) == Append(q, args)

\* variant of QueueAfter: a replaced edit moves to the end of the queue
QueueAfterMoveToEnd(q, args) ==
    LET Other(e) == ~(e.file = args.file /\ e.prop = args.prop)
    IN Append(Filter(q, Other), args)

\* updateRowFile, lines 35-42: replace the queued edit with the same key or push
QueueAfter(q, args) ==
    IF \E i \in DOMAIN q : q[i].file = args.file /\ q[i].prop = args.prop
    THEN LET existing == CHOOSE i \in DOMAIN q :
                 /\ q[i].file = args.file /\ q[i].prop = args.prop
                 /\ \A j \in 1..(i-1) : ~(q[j].file = args.file /\ q[j].prop = args.prop)
         IN [q EXCEPT ![existing] = args]
    ELSE Append(q, args)

\* updateRowFile, lines 45-47: clearTimeout(this.timeout) when it is set
ClearTimeout(pending, id) == IF id # NoTimer THEN pending \ {id} ELSE pending

\* setTimeout: the host hands out an id that no pending timer has
FreeTimers(pending) == (1..MaxTimers) \ pending
SetTimeout(pending) == CHOOSE t \in FreeTimers(pending) : \A u \in FreeTimers(pending) : t <= u

\* variant of ReturnsEarly: the processing flag is not consulted
ReturnsEarlyNoFlag(isProcessing, q) == Len(q) = 0

\* processBatch, line 52: the early return
ReturnsEarly(isProcessing, q) == isProcessing \/ Len(q) = 0

\* Array.prototype.indexOf, 1-based
IndexOf(seq, x) == CHOOSE i \in DOMAIN seq : seq[i] = x /\ \A j \in 1..(i-1) : seq[j] # x

\* processBatch, lines 69-73: after the write of batch[i] returned or was
\* caught, sleep when another operation follows, else leave the loop
AfterWrite(run) ==
    IF IndexOf(run.batch, run.batch[run.i]) < Len(run.batch)
    THEN [run EXCEPT !.pc = "sleep"]
    ELSE [run EXCEPT !.pc = "done"]

\* variant of AfterFail: no try/catch, the rejection leaves processBatch
AfterFailUncaught(run) == [run EXCEPT !.pc = "thrown", !.failAt = run.i]

\* processBatch, lines 61-68: a rejected write is caught and logged, the loop goes on
AfterFail(run) == AfterWrite([run EXCEPT !.failAt = IF @ = 0 THEN run.i ELSE @])

\* handleUpdateRelation, lines 426-434: the bidi rule matching the edited property
BidiConfigs == {[column |-> WatchedProp, reverseProperty |-> ReverseProp]}
BidiMatch(prop) == {b \in BidiConfigs : b.column = prop}

RemoveAt(seq, k) == [i \in 1..(Len(seq) - 1) |-> IF i < k THEN seq[i] ELSE seq[i + 1]]

----------------------------------------------------------------------------
(* State                                                                   *)

VARIABLES
    fm,          \* storage: fm[file][prop], the committed frontmatter
    viewData,    \* this.data of the view: the relation values of the last query update
    queue,       \* EditEngineService.queue
    timeout,     \* EditEngineService.timeout (a timer id, possibly of a fired timer)
    timers,      \* ids of the debounce timers the host still has pending
    processing,  \* EditEngineService.processing
    runs,        \* activations of processBatch that are past line 53
    inflight,    \* processFrontMatter calls of the sync service not yet run
    edits,       \* number of handler invocations so far
    sinceSnap,   \* history: per key, the enqueues since the last snapshot: how many,
                 \* the last value, whether one came during a flush (busy), during
                 \* the flush of a batch holding the same key (over), the rank of the
                 \* key's first enqueue (pos) and the ordinal of its last one (at)
    lastEnq,     \* history: per key, the value of the last enqueue, Null when never edited
    lastDone,    \* history: summary of the last activation that left its loop
    anyFail,     \* history: some processFrontMatter call was rejected
    escaped,     \* history: an exception left processBatch
    mine,        \* history: per (source, target), the last back-link call that ran
                 \* since the last cell edit of the target's back-link property
    clean,       \* history: back-link properties started absent or as lists and no
                 \* cell edit was made on one
    pin, pout    \* inputs and outputs of the function-level specifications; in
                 \* SpecViewOptions pin holds the module-level viewOptionsState

vars == <<fm, viewData, queue, timeout, timers, processing, runs, inflight, edits,
          sinceSnap, lastEnq, lastDone, anyFail, escaped, mine, clean, pin, pout>>

X == Str("text", FALSE, "x", FALSE, FALSE, FALSE)
Y == Str("text", FALSE, "y", FALSE, FALSE, FALSE)

\* what the picker produces for a note (path without ".md", formatted)
PickerLink(f) == FormatAsWikiLink([FilePath(f) EXCEPT !.ext = FALSE])
\* a hand-written "[[basename]]"
BareLink(f) == Str("wiki", FALSE, f, TRUE, FALSE, FALSE)
\* a link to a note that does not exist
MissingLink == Str("wiki", FALSE, "zz", TRUE, FALSE, FALSE)

Keys == {<<f, p>> : f \in Files, p \in Props}

\* cell edits offered to the write queue on its own
QueueInputs ==
    { [file |-> f, prop |-> PlainProp, value |-> ScalarV(v)] : f \in {"s1", "s2"}, v \in {X, Y} }

\* cell edits offered next to relation edits: the back-link property of the target
CellInputs ==
    { [file |-> "t1", prop |-> ReverseProp, value |-> ScalarV(X)],
      [file |-> "t1", prop |-> ReverseProp, value |-> ListV(<<>>)] }

\* new values of a relation cell: cleared, or set by the picker
RelationInputs == { <<>>, <<PickerLink("t1")>> }

NoSnap == [k \in Keys |-> [n |-> 0, last |-> NullV, busy |-> FALSE, over |-> FALSE,
                            pos |-> 0, at |-> 0]]
NoSummary == [batch |-> <<>>, issued |-> <<>>, failAt |-> 0, coal |-> NoSnap]

NoCall == [kind |-> "none", saw |-> "null", overlap |-> FALSE, pending |-> FALSE]

\* the back-link the sync service writes for a source document
SourceBackLink(f) == FormatAsWikiLink(FilePath(f))

\* vaults the session may start from: an empty one; one where s1 refers to t1
\* by a hand-written link and t1 lists s1; one where s1 refers to t1 and the
\* back-link property of t1 holds a scalar
EmptyVault == [f \in Files |-> [p \in Props |-> NullV]]
LinkedVault ==
    [EmptyVault EXCEPT !["s1"][WatchedProp] = ListV(<<BareLink("t1")>>),
                       !["t1"][ReverseProp] = ListV(<<SourceBackLink("s1")>>)]
ScalarVault ==
    [EmptyVault EXCEPT !["s1"][WatchedProp] = ListV(<<PickerLink("t1")>>),
                       !["t1"][ReverseProp] = ScalarV(X)]

InitIn(vaults) ==
    /\ fm \in vaults
    /\ viewData = [f \in Sources |-> fm[f][WatchedProp]]
    /\ clean = (\A f \in Files : fm[f][ReverseProp].t # "scalar")
    /\ queue = <<>>
    /\ timeout = NoTimer
    /\ timers = {}
    /\ processing = FALSE
    /\ runs = <<>>
    /\ inflight = <<>>
    /\ edits = 0
    /\ sinceSnap = NoSnap
    /\ lastEnq = [k \in Keys |-> NullV]
    /\ lastDone = NoSummary
    /\ anyFail = FALSE
    /\ escaped = FALSE
    /\ mine = [s \in Sources |-> [t \in Targets |-> NoCall]]

Init ==
    /\ InitIn({EmptyVault, LinkedVault, ScalarVault})
    /\ pin = <<>>
    /\ pout = <<>>

pureVars == <<pin, pout>>

----------------------------------------------------------------------------
(* Operations                                                              *)

\* EditEngineService.updateRowFile(args)
UpdateRowFile(args) ==
    /\ FreeTimers(ClearTimeout(timers, timeout)) # {}
    /\ queue' = QueueAfter(queue, args)
    /\ LET cleared == ClearTimeout(timers, timeout)
       IN /\ timeout' = SetTimeout(cleared)
          /\ timers' = cleared \cup {SetTimeout(cleared)}
    /\ sinceSnap' = [sinceSnap EXCEPT ![<<args.file, args.prop>>] =
                        [n |-> IF @.n < 2 THEN @.n + 1 ELSE 2,
                         last |-> args.value,
                         busy |-> @.busy \/ processing,
                         over |-> @.over \/ \E r \in DOMAIN runs : \E j \in DOMAIN runs[r].batch :
                                                /\ runs[r].batch[j].file = args.file
                                                /\ runs[r].batch[j].prop = args.prop,
                         pos |-> IF @.n = 0
                                 THEN 1 + Cardinality({k \in Keys : sinceSnap[k].n > 0})
                                 ELSE @.pos,
                         at |-> 1 + Cardinality({k \in Keys : sinceSnap[k].n >= 1})
                                  + Cardinality({k \in Keys : sinceSnap[k].n >= 2})]]
    /\ lastEnq' = [lastEnq EXCEPT ![<<args.file, args.prop>>] = args.value]

\* RelationalTableView.handleUpdateCell(file, propertyId, value)
HandleUpdateCell(args) ==
    /\ edits < MaxEdits
    /\ edits' = edits + 1
    /\ UpdateRowFile(args)
    /\ clean' = (clean /\ args.prop # ReverseProp)
    /\ mine' = [s \in Sources |-> [t \in Targets |->
                    IF t = args.file /\ args.prop = ReverseProp THEN NoCall ELSE mine[s][t]]]
    /\ UNCHANGED <<fm, viewData, processing, runs, inflight, lastDone, anyFail,
                   escaped, pureVars>>

\* RelationalTableView.handleUpdateRelation(file, propertyId, newLinks)
HandleUpdateRelation(file, prop, newLinks) ==
    LET oldRaw == viewData[file]
        IsString(v) == v.kind # "num"
        oldLinks == IF oldRaw.t = "list" THEN Filter(oldRaw.items, IsString) ELSE <<>>
        calls == IF BidiMatch(prop) # {}
                 THEN SyncBackLinks(file, (CHOOSE b \in BidiMatch(prop) : TRUE).reverseProperty,
                                    oldLinks, newLinks)
                 ELSE <<>>
    IN /\ edits < MaxEdits
       /\ Len(inflight) + Len(calls) <= MaxInflight
       /\ edits' = edits + 1
       /\ UpdateRowFile([file |-> file, prop |-> prop, value |-> ListV(newLinks)])
       /\ inflight' = inflight \o calls
       /\ UNCHANGED <<fm, viewData, processing, runs, lastDone, anyFail,
                      escaped, mine, clean, pureVars>>

\* variant of PersistFrontmatter: the document's frontmatter is replaced by
\* the one property
PersistFrontmatterWholeDocument(store, edit) ==
    [store EXCEPT ![edit.file] = [p \in DOMAIN store[edit.file] |->
                                     IF p = edit.prop THEN edit.value ELSE NullV]]

\* variant of PersistFrontmatter: a property that has a value keeps it
PersistFrontmatterIfAbsent(store, edit) ==
    IF store[edit.file][edit.prop] = NullV
    THEN [store EXCEPT ![edit.file][edit.prop] = edit.value]
    ELSE store

\* EditEngineService.persistFrontmatter: the processFrontMatter callback sets one property
PersistFrontmatter(store, edit) == [store EXCEPT ![edit.file][edit.prop] = edit.value]

\* a debounce timer fires: processBatch() up to its first await
TimerFire(t) ==
    /\ t \in timers
    /\ timers' = timers \ {t}
    /\ IF ReturnsEarly(processing, queue)
       THEN UNCHANGED <<queue, timeout, processing, runs, sinceSnap>>
       ELSE /\ Len(runs) < MaxRuns
            /\ processing' = TRUE
            /\ runs' = Append(runs, [batch |-> queue, i |-> 1, pc |-> "write",
                                     issued |-> <<queue[1]>>, failAt |-> 0,
                                     coal |-> sinceSnap])
            /\ queue' = <<>>
            /\ timeout' = NoTimer
            /\ sinceSnap' = NoSnap
    /\ UNCHANGED <<fm, viewData, inflight, edits, lastEnq, lastDone, anyFail, escaped, mine,
                   clean, pureVars>>

\* variant of Resume: no timer is armed for edits that arrived during the flush
ResumeNoRearm(r, after) ==
    /\ IF after.pc = "sleep"
       THEN /\ runs' = [runs EXCEPT ![r] = after]
            /\ UNCHANGED <<processing, timeout, timers, lastDone, escaped>>
       ELSE /\ runs' = RemoveAt(runs, r)
            /\ lastDone' = [batch |-> after.batch, issued |-> after.issued,
                            failAt |-> after.failAt, coal |-> after.coal]
            /\ processing' = (after.pc # "done")
            /\ escaped' = (escaped \/ after.pc # "done")
            /\ UNCHANGED <<timeout, timers>>

\* processBatch after the await of line 62 is over, with the run record `after`:
\* go to sleep, or leave the loop (lines 75-80), or let the exception out
Resume(r, after) ==
    /\ IF after.pc = "sleep"
       THEN /\ runs' = [runs EXCEPT ![r] = after]
            /\ UNCHANGED <<processing, timeout, timers, lastDone, escaped>>
       ELSE /\ runs' = RemoveAt(runs, r)
            /\ lastDone' = [batch |-> after.batch, issued |-> after.issued,
                            failAt |-> after.failAt, coal |-> after.coal]
            /\ IF after.pc = "done"
               THEN /\ processing' = FALSE
                    /\ escaped' = escaped
                    /\ IF Len(queue) > 0
                       THEN /\ FreeTimers(timers) # {}
                            /\ timeout' = SetTimeout(timers)
                            /\ timers' = timers \cup {SetTimeout(timers)}
                       ELSE UNCHANGED <<timeout, timers>>
               ELSE /\ escaped' = TRUE
                    /\ UNCHANGED <<processing, timeout, timers>>

\* the write of batch[i] completes
WriteDone(r) ==
    /\ r \in DOMAIN runs
    /\ runs[r].pc = "write"
    /\ fm' = PersistFrontmatter(fm, runs[r].batch[runs[r].i])
    /\ Resume(r, AfterWrite(runs[r]))
    /\ UNCHANGED <<viewData, queue, inflight, edits, sinceSnap, lastEnq, anyFail, mine, clean, pureVars>>

\* the write of batch[i] is rejected
WriteFail(r) ==
    /\ r \in DOMAIN runs
    /\ runs[r].pc = "write"
    /\ anyFail' = TRUE
    /\ Resume(r, AfterFail(runs[r]))
    /\ UNCHANGED <<fm, viewData, queue, inflight, edits, sinceSnap, lastEnq, mine, clean, pureVars>>

\* the 25ms sleep between two operations is over: next loop iteration
SleepDone(r) ==
    /\ r \in DOMAIN runs
    /\ runs[r].pc = "sleep"
    /\ runs' = [runs EXCEPT ![r] = [@ EXCEPT !.i = @ + 1, !.pc = "write",
                                            !.issued = Append(@, runs[r].batch[runs[r].i + 1])]]
    /\ UNCHANGED <<fm, viewData, queue, timeout, timers, processing, inflight, edits,
                   sinceSnap, lastEnq, lastDone, anyFail, escaped, mine, clean, pureVars>>

\* an edit for the key is in the queue, or in the batch being flushed and
\* not yet written
UnwrittenEdit(file, prop) ==
    \/ \E j \in DOMAIN queue : queue[j].file = file /\ queue[j].prop = prop
    \/ \E r \in DOMAIN runs : \E j \in DOMAIN runs[r].batch :
          /\ runs[r].batch[j].file = file /\ runs[r].batch[j].prop = prop
          /\ \/ j > runs[r].i
             \/ j = runs[r].i /\ runs[r].pc = "write"

\* an in-flight back-link call runs: one atomic read-modify-write of the target
SyncApply(k) ==
    /\ k \in DOMAIN inflight
    /\ LET op == inflight[k]
       IN /\ fm' = [fm EXCEPT ![op.file][op.prop] = Callback(op, fm[op.file][op.prop])]
          /\ mine' = [mine EXCEPT ![op.src][op.file] =
                          [kind |-> op.kind, saw |-> fm[op.file][op.prop].t,
                           overlap |-> \E j \in DOMAIN inflight :
                                          /\ inflight[j].file = op.file
                                          /\ inflight[j].src # op.src,
                           pending |-> UnwrittenEdit(op.file, op.prop)]]
    /\ inflight' = RemoveAt(inflight, k)
    /\ UNCHANGED <<viewData, queue, timeout, timers, processing, runs, edits,
                   sinceSnap, lastEnq, lastDone, anyFail, escaped, clean, pureVars>>

\* RelationalTableView.onDataUpdated: the host delivers a fresh query result
OnDataUpdated ==
    /\ viewData # [f \in Sources |-> fm[f][WatchedProp]]
    /\ viewData' = [f \in Sources |-> fm[f][WatchedProp]]
    /\ UNCHANGED <<fm, queue, timeout, timers, processing, runs, inflight, edits,
                   sinceSnap, lastEnq, lastDone, anyFail, escaped, mine, clean, pureVars>>

Next ==
    \/ \E args \in CellInputs : edits < MaxSyncEdits /\ HandleUpdateCell(args)
    \/ \E f \in Sources, links \in RelationInputs :
          edits < MaxSyncEdits /\ HandleUpdateRelation(f, WatchedProp, links)
    \/ \E t \in 1..MaxTimers : TimerFire(t)
    \/ \E r \in 1..MaxRuns : WriteDone(r)
    \/ \E r \in 1..MaxRuns : SleepDone(r)
    \/ \E k \in 1..MaxInflight : SyncApply(k)
    \/ OnDataUpdated

\* relation edits with back-link sync, cell edits on the back-link property,
\* the write queue and the host's query updates
Spec == Init /\ [][Next]_vars

\* the write queue on its own, fed by cell edits only, with writes that may fail
NextQueue ==
    \/ \E args \in QueueInputs : HandleUpdateCell(args)
    \/ \E t \in 1..MaxTimers : TimerFire(t)
    \/ \E r \in 1..MaxRuns : WriteDone(r)
    \/ \E r \in 1..MaxRuns : WriteFail(r)
    \/ \E r \in 1..MaxRuns : SleepDone(r)

InitQueue ==
    /\ InitIn({EmptyVault})
    /\ pin = <<>>
    /\ pout = <<>>

SpecQueue == InitQueue /\ [][NextQueue]_vars

----------------------------------------------------------------------------
(* Claims about the write queue                                            *)

KeyOf(edit) == <<edit.file, edit.prop>>
WritesFor(edits_, k) == {j \in DOMAIN edits_ : KeyOf(edits_[j]) = k}

\* a batch whose key k was enqueued at least twice before its snapshot issues
\* exactly one write for k, carrying the last value enqueued
Coalesced(summary, k) ==
    summary.coal[k].n >= 2 =>
        /\ Cardinality(WritesFor(summary.issued, k)) = 1
        /\ \A j \in WritesFor(summary.issued, k) :
              summary.issued[j].value = summary.coal[k].last

\* C1: when two edits for one (document, property) key are enqueued before
\* the debounce timer fires, the flush of that batch issues exactly one write
\* for the key and that write carries the value of the second edit
C1_SecondValueFlushedOnce ==
    \A k \in Keys :
        /\ Coalesced(lastDone, k)
        /\ \A r \in DOMAIN runs :
              runs[r].coal[k].n >= 2 =>
                  \A j \in WritesFor(runs[r].batch, k) :
                      runs[r].batch[j].value = runs[r].coal[k].last

\* a flush has finished for a batch in which some key was enqueued twice
C1_Witness ==
    \E k \in Keys : lastDone.coal[k].n >= 2 /\ WritesFor(lastDone.issued, k) # {}

\* C2: the pending queue never holds two entries with the same
\* (document path, property name) key
C2_OneEntryPerKey ==
    \A i, j \in DOMAIN queue : i # j => KeyOf(queue[i]) # KeyOf(queue[j])

\* after a flush, a key has been enqueued twice and the queue holds it once
C2_Witness ==
    /\ lastDone # NoSummary
    /\ \E k \in Keys : sinceSnap[k].n >= 2 /\ Cardinality(WritesFor(queue, k)) = 1

\* C3: at most one batch flush is in progress, and the writes issued are
\* exactly the operations of that batch up to its current position, so an
\* edit enqueued during the flush is not written before the batch is over
C3_BatchesNeverInterleave ==
    /\ Len(runs) <= 1
    /\ \A r \in DOMAIN runs :
          /\ processing
          /\ runs[r].issued = SubSeq(runs[r].batch, 1, runs[r].i)
          /\ \A j \in DOMAIN queue : sinceSnap[KeyOf(queue[j])].n > 0

\* a flush is in progress, an edit was enqueued during it and the debounce
\* timer that edit armed has already fired without starting a second flush
C3_Witness ==
    /\ Len(runs) = 1
    /\ Len(queue) > 0
    /\ timeout # NoTimer
    /\ timeout \notin timers

\* C10: a rejected write is caught for that operation only: the flush issues
\* every operation of the batch exactly once, in order, and no exception
\* leaves the flush
C10_FailureIsolated ==
    /\ ~escaped
    /\ lastDone.issued = lastDone.batch
    /\ \A r \in DOMAIN runs :
          runs[r].failAt > 0 => runs[r].issued = SubSeq(runs[r].batch, 1, runs[r].i)

\* a flush has finished in which a write other than the last one was rejected
C10_Witness ==
    /\ lastDone.failAt >= 1
    /\ lastDone.failAt < Len(lastDone.batch)
    /\ lastDone.issued = lastDone.batch

----------------------------------------------------------------------------
(* Claims about the sync service within the running system                 *)

\* the item is a reference that resolves to document f
RefersTo(item, f) ==
    /\ item.kind = "wiki"
    /\ ResolveWikiLink(ParseWikiLink(item).path) = f

\* the value is a list holding a reference to document f
ListHas(value, f) ==
    /\ value.t = "list"
    /\ \E i \in DOMAIN value.items : RefersTo(value.items[i], f)

\* the step is the completion of the current write of a flush
QueueWriteStep ==
    \E r \in DOMAIN runs :
        /\ runs[r].pc = "write"
        /\ fm' = PersistFrontmatter(fm, runs[r].batch[runs[r].i])
        /\ inflight' = inflight

\* the step runs one back-link call of the sync service, which was issued
\* straight to processFrontMatter and changes nothing but the back-link
\* property of its target
BackLinkStep ==
    \E k \in DOMAIN inflight :
        /\ inflight[k].prop = ReverseProp
        /\ inflight' = RemoveAt(inflight, k)
        /\ runs' = runs
        /\ queue' = queue
        /\ \A f \in Files, p \in Props :
              <<f, p>> # <<inflight[k].file, ReverseProp>> => fm'[f][p] = fm[f][p]

\* C4 as stated: every mutation, back-link mutations included, reaches
\* storage only as an operation flushed by the write queue
C4_OnlyQueueWrites == [][fm' # fm => QueueWriteStep]_vars

\* C4 as amended: cell edits and primary relation edits reach storage only
\* as operations flushed by the write queue; back-link mutations bypass the
\* queue, each applied by its own processFrontMatter call to the back-link
\* property of its target
C4_QueueOrBackLinkCall == [][fm' # fm => QueueWriteStep \/ BackLinkStep]_vars

\* a flush has written a batch and a back-link call has run
C4_Witness ==
    /\ lastDone.batch # <<>>
    /\ \E s \in Sources, t \in Targets : mine[s][t].kind # "none"

\* C5: a back-link add or remove that finds a present non-list value at the
\* target's back-link property leaves that value unchanged
C5_NonListUntouched ==
    [][\A f \in Files, p \in Props :
          (fm[f][p].t = "scalar" /\ Len(inflight') < Len(inflight))
              => fm'[f][p] = fm[f][p]]_vars

\* a remove and an add have both run against a scalar back-link property
C5_Witness ==
    /\ mine["s1"]["t1"].kind = "remove" /\ mine["s1"]["t1"].saw = "scalar"
    /\ mine["s2"]["t1"].kind = "add" /\ mine["s2"]["t1"].saw = "scalar"
    /\ fm["t1"][ReverseProp] = ScalarV(X)

Quiescent == queue = <<>> /\ runs = <<>> /\ inflight = <<>>

\* C6: once all queued and in-flight writes have completed without failure,
\* a target's back-link list contains the source exactly when the source's
\* stored relation value references the target
C6_BothSidesInSync ==
    (Quiescent /\ clean /\ ~anyFail) =>
        \A s \in Sources, t \in Targets :
            ListHas(fm[t][ReverseProp], s) <=> ListHas(fm[s][WatchedProp], t)

\* C7: back-link calls of two sources on one target do not lose each other's
\* update: the target's list holds a source exactly when the last call of
\* that source that ran was an add, whatever the other source's calls did
C7_NoLostUpdate ==
    clean =>
        \A s \in Sources, t \in Targets :
            /\ mine[s][t].kind = "add" => ListHas(fm[t][ReverseProp], s)
            /\ mine[s][t].kind = "remove" => ~ListHas(fm[t][ReverseProp], s)

\* the calls of both sources were in flight on t1 at the same time and have run
C7_Witness ==
    /\ clean
    /\ inflight = <<>>
    /\ mine["s1"]["t1"].kind = "add"
    /\ mine["s2"]["t1"].kind = "add"
    /\ mine["s1"]["t1"].overlap \/ mine["s2"]["t1"].overlap

----------------------------------------------------------------------------
(* The sync service's functions on their own                               *)

SeqsUpTo(S, n) == UNION {[1..k -> S] : k \in 0..n}

\* ways a reference to a document is found written in a list
Written(f) ==
    { SourceBackLink(f),
      ToLowerCase(SourceBackLink(f)),
      [SourceBackLink(f) EXCEPT !.alias = TRUE],
      [SourceBackLink(f) EXCEPT !.ext = TRUE],
      BareLink(f) }

\* a plain text and a number, as found in hand-edited lists
PlainText(f) == Str("text", FALSE, f, TRUE, FALSE, FALSE)
ANumber == Str("num", FALSE, "7", FALSE, FALSE, FALSE)

AddItems == Written("s1") \cup {SourceBackLink("s2"), PlainText("s1"), ANumber}
AddValues == {NullV, ScalarV(X)} \cup {ListV(l) : l \in SeqsUpTo(AddItems, MaxListLen)}

DiffItems ==
    { PickerLink("t1"), ToLowerCase(PickerLink("t1")), [PickerLink("t1") EXCEPT !.alias = TRUE],
      BareLink("t1"), PlainText("t1"), PickerLink("s2"), MissingLink }

InitAdd ==
    /\ InitIn({EmptyVault})
    /\ pin \in [existing : AddValues, source : Sources]
    /\ pout = <<>>

\* addBackLink is invoked on the value the previous invocation left
InvokeAddBackLink ==
    /\ Len(pout) < 2
    /\ pout' = Append(pout, AddBackLinkFn(IF pout = <<>> THEN pin.existing ELSE pout[Len(pout)],
                                          SourceBackLink(pin.source)))
    /\ UNCHANGED <<fm, viewData, queue, timeout, timers, processing, runs, inflight, edits,
                   sinceSnap, lastEnq, lastDone, anyFail, escaped, mine, clean, pin>>

SpecAdd == InitAdd /\ [][InvokeAddBackLink]_vars

InitDiff ==
    /\ InitIn({EmptyVault})
    /\ pin \in [old : SeqsUpTo(DiffItems, MaxDiffLen), new : SeqsUpTo(DiffItems, MaxDiffLen)]
    /\ pout = <<>>

InvokeDiffLinks ==
    /\ pout = <<>>
    /\ pout' = <<DiffLinks(pin.old, pin.new)>>
    /\ UNCHANGED <<fm, viewData, queue, timeout, timers, processing, runs, inflight, edits,
                   sinceSnap, lastEnq, lastDone, anyFail, escaped, mine, clean, pin>>

SpecDiff == InitDiff /\ [][InvokeDiffLinks]_vars

\* two wikilinks with the same link path up to letter case, ".md" extension
\* and display alias
SamePath(a, b) ==
    /\ a.kind = "wiki" /\ b.kind = "wiki"
    /\ a.name = b.name /\ a.dir = b.dir

EntriesFor(value, f) ==
    {i \in DOMAIN value.items : SamePath(value.items[i], SourceBackLink(f))}

NormalizedSet(links) == {Normalize(l) : l \in Range(links)}

----------------------------------------------------------------------------
(* NoteSearchService.resolveTextReference and RollupService                *)

\* frontmatter aliases of the documents
Alias == Str("text", FALSE, "al", TRUE, FALSE, FALSE)
\* cache.frontmatter.aliases of a document: t1 lists a number, "al" and "s2",
\* s2 lists "al", s1 holds the scalar "al"
AliasValue(f) ==
    IF f = "t1" THEN ListV(<<ANumber, Alias, PlainText("s2")>>)
    ELSE IF f = "s2" THEN ListV(<<Alias>>)
    ELSE ScalarV(Alias)
Aliases(f) ==
    IF AliasValue(f).t = "list"
    THEN {AliasValue(f).items[i].name :
              i \in {j \in DOMAIN AliasValue(f).items : AliasValue(f).items[j].kind # "num"}}
    ELSE {}

\* app.vault.getMarkdownFiles(): the documents in the order the vault lists them
VaultOrder == <<"t1", "s1", "s2">>

\* TFile.basename
Basename(f) == Str("text", FALSE, f, TRUE, FALSE, FALSE)

\* String.prototype.trim: a text with surrounding whitespace has the kind
\* "padded"
Trim(s) == [s EXCEPT !.kind = IF @ = "padded" THEN "text" ELSE @]

\* variant of ResolveTextReference: the alias lists are searched before the
\* basenames
ResolveTextReferenceAliasFirst(text, scope) ==
    IF text.kind = "num" \/ text = EmptyStr THEN NoFile
    ELSE LET lowerText == Trim(ToLowerCase(text))
             allFiles == SelectSeq(VaultOrder, LAMBDA f : f \in scope)
             byBasename == {i \in DOMAIN allFiles :
                               ToLowerCase(Basename(allFiles[i])) = lowerText}
             byAlias == {i \in DOMAIN allFiles :
                            /\ AliasValue(allFiles[i]).t = "list"
                            /\ \E k \in DOMAIN AliasValue(allFiles[i]).items :
                                  LET a == AliasValue(allFiles[i]).items[k]
                                  IN a.kind # "num" /\ ToLowerCase(a) = lowerText}
         IN IF lowerText = EmptyStr THEN NoFile
            ELSE IF byAlias # {}
                 THEN allFiles[CHOOSE i \in byAlias : \A j \in byAlias : i <= j]
            ELSE IF byBasename # {}
                 THEN allFiles[CHOOSE i \in byBasename : \A j \in byBasename : i <= j]
            ELSE NoFile

\* resolveTextReference(app, text, folderPath): null unless text is a string
\* that is not blank; first the file of the scope whose basename equals the
\* trimmed text without regard to case, then the first file of the scope
\* whose alias array holds such a string
ResolveTextReference(text, scope) ==
    IF text.kind = "num" \/ text = EmptyStr THEN NoFile
    ELSE LET lowerText == Trim(ToLowerCase(text))
             allFiles == SelectSeq(VaultOrder, LAMBDA f : f \in scope)
             byBasename == {i \in DOMAIN allFiles :
                               ToLowerCase(Basename(allFiles[i])) = lowerText}
             byAlias == {i \in DOMAIN allFiles :
                            /\ AliasValue(allFiles[i]).t = "list"
                            /\ \E k \in DOMAIN AliasValue(allFiles[i]).items :
                                  LET a == AliasValue(allFiles[i]).items[k]
                                  IN a.kind # "num" /\ ToLowerCase(a) = lowerText}
         IN IF lowerText = EmptyStr THEN NoFile
            ELSE IF byBasename # {}
                 THEN allFiles[CHOOSE i \in byBasename : \A j \in byBasename : i <= j]
            ELSE IF byAlias # {}
                 THEN allFiles[CHOOSE i \in byAlias : \A j \in byAlias : i <= j]
            ELSE NoFile

\* resolveLinks, lines 229-247: one element of the list, a wikilink first,
\* else a text reference; NoFile when it is skipped
ResolveOne(raw) ==
    IF raw.kind = "num" THEN NoFile
    ELSE IF ParseWikiLink(raw).ok THEN ResolveWikiLink(ParseWikiLink(raw).path)
    ELSE ResolveTextReference(raw, Files)

\* variant of ResolveLinks: every string element counts, resolved or not
ResolveLinksKeepUnresolved(rawLinks) ==
    LET IsString(raw) == raw.kind # "num"
    IN IF rawLinks.t = "null" THEN <<>>
       ELSE [i \in 1..Len(Filter(rawLinks.items, IsString)) |->
                ResolveOne(Filter(rawLinks.items, IsString)[i])]

\* RollupService.resolveLinks: the files a relation cell links to
ResolveLinks(rawLinks) ==
    LET Resolves(raw) == ResolveOne(raw) # NoFile
    IN IF rawLinks.t = "scalar" /\ rawLinks.items[1].kind # "num" /\ rawLinks.items[1] # EmptyStr
       THEN IF Resolves(rawLinks.items[1]) THEN <<ResolveOne(rawLinks.items[1])>> ELSE <<>>
       ELSE IF rawLinks.t # "list" THEN <<>>
       ELSE [i \in 1..Len(Filter(rawLinks.items, Resolves)) |->
                ResolveOne(Filter(rawLinks.items, Resolves)[i])]

\* Frontmatter values read from linked notes.  ty is the JavaScript type;
\* a number with lead = FALSE is NaN; a string is its leading numeric literal
\* (lead, num) followed by other text or not (rest): "3" "3abc" "x" ""
RV(ty, lead, num, rest, items) ==
    [ty |-> ty, lead |-> lead, num |-> num, rest |-> rest, items |-> items]
RNull == RV("null", FALSE, 0, FALSE, <<>>)
RNum(n) == RV("number", TRUE, n, FALSE, <<>>)
RNaN == RV("number", FALSE, 0, FALSE, <<>>)
RBool(b) == RV("boolean", b, 0, FALSE, <<>>)
RStr(lead, n, rest) == RV("string", lead, n, rest, <<>>)
RList(items) == RV("list", FALSE, 0, FALSE, items)

\* String(v)
StringOf(v) ==
    IF v.ty = "string" THEN v
    ELSE IF v.ty = "number" THEN RStr(v.lead, v.num, ~v.lead)
    ELSE IF v.ty = "list"
         THEN IF v.items = <<>> THEN RStr(FALSE, 0, FALSE)
              ELSE LET first == v.items[1]
                       s == IF first.ty = "null" THEN RStr(FALSE, 0, FALSE)
                            ELSE IF first.ty = "number" THEN RStr(first.lead, first.num, ~first.lead)
                            ELSE IF first.ty = "string" THEN first
                            ELSE RStr(FALSE, 0, TRUE)
                   IN RStr(s.lead, s.num, s.rest \/ Len(v.items) > 1)
    ELSE RStr(FALSE, 0, TRUE)

\* parseFloat: the leading numeric literal of the string, NaN without one
ParseFloat(s) == IF s.lead THEN RNum(s.num) ELSE RNaN

\* RollupService.toNumbers
ToNumbers(values) ==
    LET Coerce(v) == IF v.ty = "number" THEN v ELSE ParseFloat(StringOf(v))
        NotNaN(v) == Coerce(v).lead
        kept == Filter(values, NotNaN)
    IN [i \in 1..Len(kept) |-> Coerce(kept[i]).num]

RECURSIVE Reduce(_)
\* nums.reduce((acc, n) => acc + n, 0)
Reduce(nums) == IF nums = <<>> THEN 0 ELSE Reduce(SubSeq(nums, 1, Len(nums) - 1)) + nums[Len(nums)]

\* Math.round of the fraction num/den, den > 0, num >= 0
MathRound(num, den) == (2 * num + den) \div (2 * den)

\* the text "(t/total) p%"
PercentText(t, total, p) == [t |-> t, total |-> total, p |-> p]

\* variant of PercentTrue: the total is the number of boolean values
PercentTrueOfBools(values, total) ==
    LET IsBool(v) == v.ty = "boolean"
        IsTrue(v) == v.lead
        bools == Filter(values, IsBool)
        trueCount == Len(Filter(bools, IsTrue))
    IN IF Len(bools) = 0 THEN PercentText(0, total, 0)
       ELSE PercentText(trueCount, Len(bools), MathRound(trueCount * 100, Len(bools)))

\* aggregate, case 'percent_true'
PercentTrue(values, total) ==
    LET IsBool(v) == v.ty = "boolean"
        IsTrue(v) == v.lead
        bools == Filter(values, IsBool)
        trueCount == Len(Filter(bools, IsTrue))
    IN IF Len(bools) = 0
       THEN IF total = 0 THEN PercentText(0, 0, 0) ELSE PercentText(0, total, 0)
       ELSE PercentText(trueCount, total, MathRound(trueCount * 100, total))

\* the number num / den, den > 0
Quotient(num, den) == [num |-> num, den |-> den]

\* aggregate, case 'average'
Average(values) ==
    LET nums == ToNumbers(values)
    IN IF Len(nums) = 0 THEN Quotient(0, 1) ELSE Quotient(Reduce(nums), Len(nums))

\* aggregate, case 'min'
Min(values) ==
    LET nums == ToNumbers(values)
    IN IF Len(nums) = 0 THEN RNull
       ELSE RNum(CHOOSE m \in {nums[i] : i \in DOMAIN nums} :
                     \A i \in DOMAIN nums : m <= nums[i])

\* aggregate, case 'max'
Max(values) ==
    LET nums == ToNumbers(values)
    IN IF Len(nums) = 0 THEN RNull
       ELSE RNum(CHOOSE m \in {nums[i] : i \in DOMAIN nums} :
                     \A i \in DOMAIN nums : m >= nums[i])

\* RollupService.aggregate(values, aggregation, totalLinks), for each aggregation
Aggregate(values, total) ==
    [count |-> total,
     sum |-> Reduce(ToNumbers(values)),
     average |-> Average(values),
     min |-> Min(values),
     max |-> Max(values),
     percent_true |-> PercentTrue(values, total)]

\* readProperty: the target property of a linked note, null when absent
ReadProperty(targetVals, file) ==
    IF file \in DOMAIN targetVals THEN targetVals[file] ELSE RNull

\* computeRollups for one row and one rollup column
ComputeRollups(rawLinks, targetVals) ==
    LET linkedFiles == ResolveLinks(rawLinks)
        values == [i \in 1..Len(linkedFiles) |-> ReadProperty(targetVals, linkedFiles[i])]
    IN Aggregate(values, Len(linkedFiles))

\* elements found in a relation cell: wikilinks to existing notes, a wikilink
\* to a missing note, text references by basename and by alias, a text that
\* matches nothing, a number
RollupItems ==
    { BareLink("t1"), PickerLink("s2"), MissingLink, PlainText("s2"), Alias, X, ANumber }

RollupCells ==
    {NullV} \cup {ScalarV(s) : s \in RollupItems \cup {EmptyStr}}
            \cup {ListV(l) : l \in SeqsUpTo(RollupItems, MaxRollupLinks)}

\* values of the target property in the linked notes
TargetVals == [{"t1", "s2"} -> {RNull, RNum(2)}]

\* values handed to aggregate
AggValues ==
    { RNull, RNum(2), RNaN, RBool(TRUE), RBool(FALSE), RStr(TRUE, 3, FALSE),
      RStr(TRUE, 3, TRUE), RStr(FALSE, 0, TRUE), RList(<<RNum(2), RNum(4)>>) }

InitRollup ==
    /\ InitIn({EmptyVault})
    /\ pin \in [raw : RollupCells, vals : TargetVals]
    /\ pout = <<>>

InvokeComputeRollups ==
    /\ pout = <<>>
    /\ pout' = <<ComputeRollups(pin.raw, pin.vals)>>
    /\ UNCHANGED <<fm, viewData, queue, timeout, timers, processing, runs, inflight, edits,
                   sinceSnap, lastEnq, lastDone, anyFail, escaped, mine, clean, pin>>

\* computeRollups on one relation cell
SpecRollup == InitRollup /\ [][InvokeComputeRollups]_vars

InitAggregate ==
    /\ InitIn({EmptyVault})
    /\ pin \in [values : SeqsUpTo(AggValues, MaxValues)]
    /\ pout = <<>>

\* aggregate as computeRollups calls it: totalLinks is the number of values
InvokeAggregate ==
    /\ pout = <<>>
    /\ pout' = <<Aggregate(pin.values, Len(pin.values))>>
    /\ UNCHANGED <<fm, viewData, queue, timeout, timers, processing, runs, inflight, edits,
                   sinceSnap, lastEnq, lastDone, anyFail, escaped, mine, clean, pin>>

\* aggregate on a list of target values
SpecAggregate == InitAggregate /\ [][InvokeAggregate]_vars

\* the element is a reference that resolves to a document
ResolvesToDocument(raw) ==
    \/ raw.kind = "wiki" /\ raw.name \in Files
    \/ raw.kind = "text" /\ ~raw.dir /\ ~raw.ext
          /\ (raw.name \in Files \/ \E f \in Files : raw.name \in Aliases(f))

\* C11: the count aggregation of a row equals the number of references in
\* the row's relation value that resolve to a document: unresolved references
\* are excluded, resolved documents whose target property is Null are included
C11_CountIsResolvedReferences ==
    pout # <<>> =>
        pout[1].count =
            Cardinality({i \in DOMAIN pin.raw.items : ResolvesToDocument(pin.raw.items[i])})

\* the count of a list like [[A]], [[B]], [[Missing]] where A's target
\* property is Null has been computed as 2
C11_Witness ==
    /\ pout # <<>>
    /\ pin.raw = ListV(<<BareLink("t1"), PickerLink("s2"), MissingLink>>)
    /\ pin.vals["t1"] = RNull
    /\ pout[1].count = 2

\* C12: percent_true is "(t/total) p%" with t the number of values that are
\* boolean true, total the number of resolved documents and p the integer
\* nearest to 100*t/total; it is "(0/0) 0%" when total is 0
C12_PercentTrue ==
    pout # <<>> =>
        LET t == Cardinality({i \in DOMAIN pin.values : pin.values[i] = RBool(TRUE)})
            total == Len(pin.values)
            r == pout[1].percent_true
        IN /\ r.t = t
           /\ r.total = total
           /\ total = 0 => r.p = 0
           /\ total > 0 => /\ 2 * (r.p * total - 100 * t) <= total
                           /\ 2 * (100 * t - r.p * total) <= total

\* percent_true of [true, false] with a third document that has no value
\* has been computed as "(1/3) 33%"
C12_Witness ==
    /\ pout # <<>>
    /\ pin.values = <<RBool(TRUE), RBool(FALSE), RNull>>
    /\ pout[1].percent_true = PercentText(1, 3, 33)

RECURSIVE SumOfNumeric(_)
\* the sum of the values that are numbers or numeric strings
SumOfNumeric(values) ==
    IF values = <<>> THEN 0
    ELSE LET v == values[Len(values)]
             n == IF v.ty = "number" /\ v.lead THEN v.num
                  ELSE IF v.ty = "string" /\ v.lead /\ ~v.rest THEN v.num
                  ELSE 0
         IN SumOfNumeric(SubSeq(values, 1, Len(values) - 1)) + n

\* C13: the sum aggregation is the sum of the target values that are numbers
\* or numeric strings; Null and non-numeric values contribute nothing
C13_SumOfNumericValues ==
    pout # <<>> => pout[1].sum = SumOfNumeric(pin.values)

----------------------------------------------------------------------------
(* RelationalTableView.detectRelationColumn                                *)

\* rows.slice(0, 10)
SampleSize == 10
Sampled(rows) == SubSeq(rows, 1, IF Len(rows) < SampleSize THEN Len(rows) ELSE SampleSize)

\* WIKILINK_REGEX.test(item): the text is an encoded reference
IsWikiLink(item) == item.kind = "wiki"

\* NoteSearchService.isTextReference(app, text, folderPath)
IsTextReference(text, scope) == ResolveTextReference(text, scope) # NoFile

\* variant of Pattern1: every sampled value that is not empty has to be such
\* an array
Pattern1EveryValue(sampled, scope) ==
    /\ \E r \in DOMAIN sampled : sampled[r].t = "list" /\ Len(sampled[r].items) > 0
    /\ \A r \in DOMAIN sampled :
          LET val == sampled[r]
          IN (val # NullV /\ val # ScalarV(EmptyStr) /\ val # ListV(<<>>)) =>
                 /\ val.t = "list"
                 /\ \A i \in DOMAIN val.items : val.items[i].kind # "num"
                 /\ \/ \A i \in DOMAIN val.items : IsWikiLink(val.items[i])
                    \/ \A i \in DOMAIN val.items : IsTextReference(val.items[i], scope)

\* detectRelationColumn, pattern 1: some sampled value is a non-empty array of
\* strings that are all wikilinks (1a) or all text references (1b)
Pattern1(sampled, scope) ==
    \E r \in DOMAIN sampled :
        LET val == sampled[r]
        IN /\ val.t = "list"
           /\ Len(val.items) > 0
           /\ \A i \in DOMAIN val.items : val.items[i].kind # "num"
           /\ \/ \A i \in DOMAIN val.items : IsWikiLink(val.items[i])
              \/ \A i \in DOMAIN val.items : IsTextReference(val.items[i], scope)

\* the rows pattern 2 counts: non-empty scalar strings that are no wikilinks
TextRefSamples(sampled) ==
    {r \in DOMAIN sampled :
        /\ sampled[r].t = "scalar"
        /\ sampled[r].items[1] # EmptyStr
        /\ sampled[r].items[1].kind # "num"
        /\ ~IsWikiLink(sampled[r].items[1])}

TextRefHits(sampled, scope) ==
    {r \in TextRefSamples(sampled) : IsTextReference(sampled[r].items[1], scope)}

\* variant of Pattern2: half of the samples is enough
Pattern2AtLeastHalf(sampled, scope) ==
    LET textRefSamples == Cardinality(TextRefSamples(sampled))
        textRefHits == Cardinality(TextRefHits(sampled, scope))
    IN textRefSamples >= 2 /\ 2 * textRefHits >= textRefSamples

\* detectRelationColumn, pattern 2: textRefHits / textRefSamples > 0.5
Pattern2(sampled, scope) ==
    LET textRefSamples == Cardinality(TextRefSamples(sampled))
        textRefHits == Cardinality(TextRefHits(sampled, scope))
    IN textRefSamples >= 2 /\ 2 * textRefHits > textRefSamples

\* detectRelationColumn(propId, rows, baseFolder); isNote is
\* propId.startsWith('note.'), scope the files under baseFolder, subfolder
\* whether matchRelationSubfolder finds a folder named after the property
DetectRelationColumn(isNote, rows, scope, subfolder) ==
    IF ~isNote THEN FALSE
    ELSE IF Pattern1(Sampled(rows), scope) THEN TRUE
    ELSE IF Pattern2(Sampled(rows), scope) THEN TRUE
    ELSE subfolder

\* values found in one column of the sampled rows
ColumnValues ==
    { NullV, ScalarV(EmptyStr), ScalarV(PlainText("t1")), ScalarV(Alias), ScalarV(X),
      ScalarV(BareLink("t1")), ScalarV(ANumber),
      ListV(<<X>>), ListV(<<BareLink("t1")>>), ListV(<<PlainText("t1")>>),
      ListV(<<BareLink("t1"), X>>) }

InitDetect ==
    /\ InitIn({EmptyVault})
    /\ pin \in [isNote : BOOLEAN, rows : SeqsUpTo(ColumnValues, MaxRows),
                scope : {Files, {"s1"}}, subfolder : BOOLEAN]
    /\ pout = <<>>

InvokeDetectRelationColumn ==
    /\ pout = <<>>
    /\ pout' = <<DetectRelationColumn(pin.isNote, pin.rows, pin.scope, pin.subfolder)>>
    /\ UNCHANGED <<fm, viewData, queue, timeout, timers, processing, runs, inflight, edits,
                   sinceSnap, lastEnq, lastDone, anyFail, escaped, mine, clean, pin>>

\* detectRelationColumn on one column of the sampled rows
SpecDetect == InitDetect /\ [][InvokeDetectRelationColumn]_vars

\* a scalar string value that is not empty and not an encoded reference
ScalarText(val) ==
    /\ val.t = "scalar"
    /\ val.items[1].kind = "text"
    /\ val.items[1] # EmptyStr

\* the text names a document of the scope by basename or alias
NamesDocument(text, scope) ==
    \E f \in scope : ~text.dir /\ ~text.ext /\ (text.name = f \/ text.name \in Aliases(f))

\* no heuristic other than the scalar-text one matches the column
OnlyTextHeuristic ==
    /\ ~pin.subfolder
    /\ \A r \in DOMAIN pin.rows :
          pin.rows[r].t = "list" =>
              \E i \in DOMAIN pin.rows[r].items :
                  /\ ~IsWikiLink(pin.rows[r].items[i])
                  /\ ~NamesDocument(pin.rows[r].items[i], pin.scope)

----------------------------------------------------------------------------
(* syncBackLinks on its own                                                *)

InitSync ==
    /\ InitIn({EmptyVault})
    /\ pin \in [old : SeqsUpTo(DiffItems, MaxDiffLen), new : SeqsUpTo(DiffItems, MaxDiffLen)]
    /\ pout = <<>>

\* syncBackLinks(app, s1, reverseProperty, oldLinks, newLinks)
InvokeSyncBackLinks ==
    /\ pout = <<>>
    /\ pout' = <<SyncBackLinks("s1", ReverseProp, pin.old, pin.new)>>
    /\ UNCHANGED <<fm, viewData, queue, timeout, timers, processing, runs, inflight, edits,
                   sinceSnap, lastEnq, lastDone, anyFail, escaped, mine, clean, pin>>

SpecSync == InitSync /\ [][InvokeSyncBackLinks]_vars

\* some element of the list is an encoded reference that resolves to f
EncodedRefTo(links, f) ==
    \E i \in DOMAIN links : links[i].kind = "wiki" /\ links[i].name = f

\* C15: a reference that is not in encoded (wikilink) form never causes a
\* back-link to be added or removed: every back-link call issued goes to a
\* document that an encoded reference of the new list (for an add) or of the
\* old list (for a remove) resolves to
C15_TextReferencesIssueNoCalls ==
    pout # <<>> =>
        \A c \in DOMAIN pout[1] :
            /\ pout[1][c].kind = "add" => EncodedRefTo(pin.new, pout[1][c].file)
            /\ pout[1][c].kind = "remove" => EncodedRefTo(pin.old, pout[1][c].file)

\* a text reference to t1 was added next to an encoded reference to s2, and
\* the only call issued is the one for s2
C15_Witness ==
    /\ pout # <<>>
    /\ pin.old = <<>>
    /\ pin.new = <<PlainText("t1"), PickerLink("s2")>>
    /\ Len(pout[1]) = 1
    /\ pout[1][1].file = "s2"

----------------------------------------------------------------------------
(* Further claims about the write queue                                    *)

\* the write queue under the assumption that pending timers eventually fire,
\* writes eventually return and sleeps eventually end
SpecQueueLive ==
    /\ InitQueue
    /\ [][NextQueue]_vars
    /\ WF_vars(\E t \in 1..MaxTimers : TimerFire(t))
    /\ WF_vars(\E r \in 1..MaxRuns : WriteDone(r) \/ WriteFail(r))
    /\ WF_vars(\E r \in 1..MaxRuns : SleepDone(r))

\* C16: every enqueue restarts the debounce timer: after an enqueue the only
\* pending debounce timer is the one that enqueue started
C16_OnlyNewestTimerPending ==
    [][edits' # edits => timers' = {timeout'}]_vars

\* C17: every enqueued edit is eventually removed from the pending queue:
\* whenever the queue holds edits, also edits enqueued while a flush is in
\* progress, it is empty at some later time
C17_QueueEventuallyDrained == (queue # <<>>) ~> (queue = <<>>)

\* a batch that holds an edit enqueued during the previous flush has been
\* flushed and nothing is left pending
C17_Witness ==
    /\ queue = <<>>
    /\ runs = <<>>
    /\ \E k \in Keys : lastDone.coal[k].busy

\* C18: a back-link appended by the sync service while a queue edit for the
\* same (target, property) key was still unwritten is in the target's list
\* for as long as the source's last call was that add and no cell edit of the
\* property was made afterwards
C18_BackLinkSurvivesQueueWrite ==
    \A s \in Sources, t \in Targets :
        (mine[s][t].kind = "add" /\ mine[s][t].saw # "scalar" /\ mine[s][t].pending)
            => ListHas(fm[t][ReverseProp], s)

\* C19: last value wins across batches: once the queue is empty, no flush is
\* in progress and no write failed, the stored value of every edited key is
\* the value of the last enqueue for that key
C19_LastValueWins ==
    (queue = <<>> /\ runs = <<>> /\ ~processing /\ ~anyFail) =>
        \A k \in Keys : lastEnq[k] # NullV => fm[k[1]][k[2]] = lastEnq[k]

\* a key was enqueued again while the batch holding its earlier edit was
\* being flushed, and both flushes are over
C19_Witness ==
    /\ queue = <<>> /\ runs = <<>> /\ ~processing /\ ~anyFail
    /\ \E k \in Keys :
          /\ lastDone.coal[k].over
          /\ fm[k[1]][k[2]] = lastEnq[k]
          /\ \E k2 \in Keys : k2 # k /\ lastEnq[k2] # NullV /\ lastEnq[k2] # lastEnq[k]

\* the keys of the batch are in the order of their first enqueue since the
\* previous snapshot
AccumulationOrder(batch, coal) ==
    \A j \in DOMAIN batch : coal[KeyOf(batch[j])].pos = j

\* C20: within one batch the writes are issued one at a time, each after the
\* previous one has completed or failed, in accumulation order: the order in
\* which each key was first enqueued since the previous snapshot
C20_SequentialInAccumulationOrder ==
    /\ Cardinality({r \in DOMAIN runs : runs[r].pc = "write"}) <= 1
    /\ \A r \in DOMAIN runs :
          /\ AccumulationOrder(runs[r].batch, runs[r].coal)
          /\ runs[r].issued = SubSeq(runs[r].batch, 1, runs[r].i)
    /\ AccumulationOrder(lastDone.batch, lastDone.coal)
    /\ lastDone.issued = lastDone.batch

\* a batch of two keys has been flushed in which the first key was enqueued
\* again after the second key had been enqueued
C20_Witness ==
    /\ Len(lastDone.batch) = 2
    /\ lastDone.issued = lastDone.batch
    /\ lastDone.coal[KeyOf(lastDone.batch[1])].n >= 2
    /\ lastDone.coal[KeyOf(lastDone.batch[1])].at > lastDone.coal[KeyOf(lastDone.batch[2])].at

----------------------------------------------------------------------------
(* addBackLink and removeBackLink on one value of the target's property    *)

\* removeBackLink, line 155: whether fm[propertyName] is assigned
RemoveBackLinkWrites(existing, backLink) ==
    /\ existing.t = "list"
    /\ \E i \in DOMAIN existing.items : SameBackLink(existing.items[i], backLink)

\* both callbacks applied to the value found at the target's property
InvokeBackLinkCalls ==
    /\ pout = <<>>
    /\ pout' = <<[add |-> AddBackLinkFn(pin.existing, SourceBackLink(pin.source)),
                  remove |-> RemoveBackLinkFn(pin.existing, SourceBackLink(pin.source)),
                  wrote |-> RemoveBackLinkWrites(pin.existing, SourceBackLink(pin.source))]>>
    /\ UNCHANGED <<fm, viewData, queue, timeout, timers, processing, runs, inflight, edits,
                   sinceSnap, lastEnq, lastDone, anyFail, escaped, mine, clean, pin>>

SpecBackLink == InitAdd /\ [][InvokeBackLinkCalls]_vars

\* the entries of a list that resolve to document f
RefsTo(value, f) == {i \in DOMAIN value.items : RefersTo(value.items[i], f)}

\* C21: equivalence in back-link add and remove is decided by resolved
\* identity: when an entry of the list refers to the source document, however
\* it is written, add leaves the list as it is, and after remove no entry
\* refers to the source document
C21_EquivalenceByResolvedIdentity ==
    (pout # <<>> /\ pin.existing.t = "list") =>
        /\ RefsTo(pin.existing, pin.source) # {} => pout[1].add = pin.existing
        /\ RefsTo(pout[1].remove, pin.source) = {}

\* the entries that are not equivalent to the source reference, in order
OtherEntries(value, f) ==
    LET Other(item) == ~SamePath(item, SourceBackLink(f))
    IN SelectSeq(value.items, Other)

C23_AddCreatesOrAppends ==
    Len(pout) >= 1 =>
        /\ pin.existing.t = "null" => pout[1] = ListV(<<SourceBackLink(pin.source)>>)
        /\ (pin.existing.t = "list" /\ EntriesFor(pin.existing, pin.source) = {})
               => pout[1] = ListV(pin.existing.items \o <<SourceBackLink(pin.source)>>)

\* the source reference has been appended to a list of two other entries
C23_Witness ==
    /\ Len(pout) >= 1
    /\ pin.existing.t = "list"
    /\ Len(pin.existing.items) = 2
    /\ pin.existing.items[1] # pin.existing.items[2]
    /\ EntriesFor(pin.existing, pin.source) = {}
    /\ pout[1].items[3] = SourceBackLink(pin.source)

----------------------------------------------------------------------------
(* persistFrontmatter on its own                                           *)

\* frontmatter found in storage when a flushed operation is written
Stores == [Files -> [Props -> {NullV, ScalarV(X)}]]

\* operations the queue may flush
PersistEdits ==
    { [file |-> f, prop |-> p, value |-> v] :
          f \in Files, p \in Props, v \in {ScalarV(Y), ListV(<<PickerLink("t1")>>)} }

InitPersist ==
    /\ InitIn({EmptyVault})
    /\ pin \in [store : Stores, edit : PersistEdits]
    /\ pout = <<>>

\* one flushed operation is written
InvokePersistFrontmatter ==
    /\ pout = <<>>
    /\ pout' = <<PersistFrontmatter(pin.store, pin.edit)>>
    /\ UNCHANGED <<fm, viewData, queue, timeout, timers, processing, runs, inflight, edits,
                   sinceSnap, lastEnq, lastDone, anyFail, escaped, mine, clean, pin>>

SpecPersist == InitPersist /\ [][InvokePersistFrontmatter]_vars

\* C24: a flushed operation changes exactly one property of exactly one
\* document: the property of its key holds the operation's value, every other
\* property of that document and every other document are as before
C24_OnePropertyOfOneDocument ==
    pout # <<>> =>
        \A f \in Files, p \in Props :
            pout[1][f][p] = IF f = pin.edit.file /\ p = pin.edit.prop
                            THEN pin.edit.value
                            ELSE pin.store[f][p]

\* an operation has been written to a document whose other properties, like
\* the same property of another document, hold values
C24_Witness ==
    /\ pout # <<>>
    /\ pin.edit.file = "s1"
    /\ pin.edit.prop = PlainProp
    /\ \A f \in Files, p \in Props : pin.store[f][p] = ScalarV(X)
    /\ pout[1]["s1"][PlainProp] = pin.edit.value

----------------------------------------------------------------------------
(* Further claims about detectRelationColumn                               *)

\* the value is a non-empty list whose elements are all encoded references
EncodedList(val) ==
    /\ val.t = "list"
    /\ val.items # <<>>
    /\ \A i \in DOMAIN val.items : val.items[i].kind = "wiki"

\* the sampled value is not empty
NonEmptyValue(val) == val # NullV /\ val # ScalarV(EmptyStr) /\ val # ListV(<<>>)

\* neither the plain-string-list heuristic nor the scalar-text heuristic nor
\* the subfolder heuristic matches the column
NoHeuristicButEncodedLists ==
    /\ ~pin.subfolder
    /\ \A r \in DOMAIN pin.rows :
          (pin.rows[r].t = "list" /\ pin.rows[r].items # <<>>) =>
              \E i \in DOMAIN pin.rows[r].items :
                  ~NamesDocument(pin.rows[r].items[i], pin.scope)
    /\ LET samples == {r \in DOMAIN pin.rows : ScalarText(pin.rows[r])}
           hits == {r \in samples : NamesDocument(pin.rows[r].items[1], pin.scope)}
       IN ~(Cardinality(samples) >= 2 /\ 2 * Cardinality(hits) > Cardinality(samples))

\* C25 as stated: when some sampled non-empty value is not a list of encoded
\* references and no other heuristic matches, the property is classified as
\* not a relation
C25_EveryValueEncodedList ==
    (pout # <<>> /\ NoHeuristicButEncodedLists
        /\ \E r \in DOMAIN pin.rows :
              NonEmptyValue(pin.rows[r]) /\ ~EncodedList(pin.rows[r]))
        => ~pout[1]

\* C25 as amended: with no other heuristic matching, a note property is
\* classified as a relation exactly when some sampled value is a non-empty
\* list whose elements are all encoded references, whatever the other
\* sampled values are
C25_SomeValueEncodedList ==
    (pout # <<>> /\ pin.isNote /\ NoHeuristicButEncodedLists) =>
        (pout[1] <=> \E r \in DOMAIN pin.rows : EncodedList(pin.rows[r]))

\* a column with a list of encoded references in one row and a plain text
\* in another has been classified as a relation
C25_Witness ==
    /\ pout = <<TRUE>>
    /\ pin.isNote
    /\ NoHeuristicButEncodedLists
    /\ pin.rows = <<ScalarV(X), ListV(<<BareLink("t1")>>)>>

----------------------------------------------------------------------------
(* Folder matching: matchRelationSubfolder, inferRelationFolder            *)

\* a property or folder name: a stem in lower or mixed case followed by
\* `s` letters "s"
Name(stem, up, s) == [stem |-> stem, up |-> up, s |-> s]

\* a property id "<ns>.<name>"
PropId(ns, name) == [ns |-> ns, name |-> name]

\* a folder path is the sequence of its segments; undefined is the empty one
NoFolder == <<>>
RootFolder == <<"root">>

\* extractPropertyName: the part after the first "."
ExtractPropertyName(propId) == propId.name

\* propName.toLowerCase()
LowerName(name) == [name EXCEPT !.up = FALSE]

\* propName.length > 1 && propName.endsWith('s')
EndsWithS(name) == name.s >= 1 /\ (name.stem # "" \/ name.s >= 2)

\* vault.getAbstractFileByPath(base + "/" + name): the entry of the tree
\* under the base folder with exactly this name, if any
GetAbstractFileByPath(tree, name) == {en \in tree : en.name = name}

\* matchRelationSubfolder: the first candidate that is a folder of the vault
Candidates(propId) ==
    LET propName == LowerName(ExtractPropertyName(propId))
    IN <<propName, [propName EXCEPT !.s = @ + 1]>>
       \o (IF EndsWithS(propName) THEN <<[propName EXCEPT !.s = @ - 1]>> ELSE <<>>)

MatchRelationSubfolder(propId, baseFolder, tree) ==
    IF baseFolder = NoFolder THEN NoFolder
    ELSE LET cands == Candidates(propId)
             found == {i \in DOMAIN cands :
                          \E en \in GetAbstractFileByPath(tree, cands[i]) : en.children}
         IN IF found = {} THEN NoFolder
            ELSE Append(baseFolder, cands[CHOOSE i \in found : \A j \in found : i <= j])

\* inferRelationFolder: the matched subfolder, else the base folder
InferRelationFolder(propId, baseFolder, tree) ==
    IF MatchRelationSubfolder(propId, baseFolder, tree) # NoFolder
    THEN MatchRelationSubfolder(propId, baseFolder, tree)
    ELSE baseFolder

\* property names and the entries found directly under the base folder
PropNames ==
    { Name("project", up, s) : up \in BOOLEAN, s \in 0..1 } \cup { Name("", FALSE, 1) }
TreeEntries ==
    { [name |-> Name("project", up, s), children |-> TRUE] : up \in BOOLEAN, s \in 0..1 }
        \cup { [name |-> Name("project", FALSE, 0), children |-> FALSE] }
EmptyValues == { NullV, ListV(<<>>) }

InitFolder ==
    /\ InitIn({EmptyVault})
    /\ pin \in [propId : {PropId(ns, n) : ns \in {"note", "file"}, n \in PropNames},
                rows : SeqsUpTo(EmptyValues, MaxRows),
                baseFolder : {NoFolder, RootFolder},
                tree : SUBSET TreeEntries]
    /\ pout = <<>>

InvokeDetectEmptyColumn ==
    /\ pout = <<>>
    /\ pout' = <<[relation |->
                      DetectRelationColumn(pin.propId.ns = "note", pin.rows, Files,
                          MatchRelationSubfolder(pin.propId, pin.baseFolder, pin.tree)
                              # NoFolder),
                  folder |-> InferRelationFolder(pin.propId, pin.baseFolder, pin.tree)]>>
    /\ UNCHANGED <<fm, viewData, queue, timeout, timers, processing, runs, inflight, edits,
                   sinceSnap, lastEnq, lastDone, anyFail, escaped, mine, clean, pin>>

\* detectRelationColumn and inferRelationFolder on a column without values
SpecFolder == InitFolder /\ [][InvokeDetectEmptyColumn]_vars

\* the names the property name stands for: as given, with an "s" added, with
\* a trailing "s" removed
NameVariants(name) ==
    {name, [name EXCEPT !.s = @ + 1]}
        \cup (IF name.s >= 1 THEN {[name EXCEPT !.s = @ - 1]} ELSE {})

\* the subtrees directly under the base folder whose name is a variant of
\* the property name
MatchingSubtrees ==
    IF pin.baseFolder = NoFolder THEN {}
    ELSE {en \in pin.tree : en.children /\ en.name \in NameVariants(pin.propId.name)}

\* C26: a note property without sampled non-empty values is classified as a
\* relation if and only if a subtree directly under the inferred root carries
\* its name (as given, with "s" added or with "s" removed), and the inferred
\* scope is then such a subtree
C26_EmptyColumnMatchesSubtree ==
    (pout # <<>> /\ pin.propId.ns = "note") =>
        /\ pout[1].relation <=> MatchingSubtrees # {}
        /\ pout[1].relation => \E en \in MatchingSubtrees :
                                    pout[1].folder = Append(pin.baseFolder, en.name)

----------------------------------------------------------------------------
(* RollupService.aggregate: list and unique; average, min and max          *)

\* String(item) of a list item: a number becomes its text
StringOfItem(item) == [item EXCEPT !.kind = IF @ = "num" THEN "text" ELSE @]

\* an element of the list aggregation: { path, display } for a wikilink
\* (display is the alias when the link has one), else the string itself
LinkItem(s) ==
    IF ParseWikiLink(s).ok
    THEN [link |-> TRUE, text |-> ParseWikiLink(s).path, alias |-> s.alias]
    ELSE [link |-> FALSE, text |-> s, alias |-> FALSE]

RECURSIVE FlattenAndResolveLinks(_)
\* flattenAndResolveLinks: null values dropped, arrays expanded, every item
\* stringified and parsed
FlattenAndResolveLinks(values) ==
    IF values = <<>> THEN <<>>
    ELSE LET v == values[Len(values)]
             items == IF v = NullV THEN <<>> ELSE v.items
         IN FlattenAndResolveLinks(SubSeq(values, 1, Len(values) - 1))
                \o [i \in 1..Len(items) |-> LinkItem(StringOfItem(items[i]))]

\* aggregate, case 'unique': key of an item
UniqueKey(item) == item.text

\* aggregate, case 'unique': the filter over the flattened items with the
\* set of keys seen so far
Unique(values) ==
    LET items == FlattenAndResolveLinks(values)
        F[i \in 0..Len(items)] ==
            IF i = 0 THEN [seen |-> {}, out |-> <<>>]
            ELSE IF UniqueKey(items[i]) \in F[i - 1].seen THEN F[i - 1]
            ELSE [seen |-> F[i - 1].seen \cup {UniqueKey(items[i])},
                  out |-> Append(F[i - 1].out, items[i])]
    IN F[Len(items)].out

\* target values handed to the list and unique aggregations
UniqueValues ==
    { NullV, ScalarV(BareLink("t1")), ScalarV(ToLowerCase(BareLink("t1"))),
      ScalarV(PlainText("t1")), ScalarV(ANumber),
      ListV(<<[BareLink("t1") EXCEPT !.alias = TRUE], X>>) }

InitUnique ==
    /\ InitIn({EmptyVault})
    /\ pin \in [values : SeqsUpTo(UniqueValues, MaxValues)]
    /\ pout = <<>>

InvokeAggregateList ==
    /\ pout = <<>>
    /\ pout' = <<[list |-> FlattenAndResolveLinks(pin.values),
                  unique |-> Unique(pin.values)]>>
    /\ UNCHANGED <<fm, viewData, queue, timeout, timers, processing, runs, inflight, edits,
                   sinceSnap, lastEnq, lastDone, anyFail, escaped, mine, clean, pin>>

\* the list and unique aggregations on a list of target values
SpecUnique == InitUnique /\ [][InvokeAggregateList]_vars

\* two elements are the same reference or text up to case
EquivalentItems(a, b) == ToLowerCase(a.text) = ToLowerCase(b.text)

\* the elements of seq at the positions K, in order
SubSeqAt(seq, K) ==
    LET F[i \in 0..Len(seq)] ==
            IF i = 0 THEN <<>>
            ELSE IF i \in K THEN Append(F[i - 1], seq[i]) ELSE F[i - 1]
    IN F[Len(seq)]

\* C27: unique is an order-preserving subsequence of list that keeps first
\* occurrences, no two of its elements are equivalent under normalized
\* comparison (such as references that differ only in case), and every
\* element of list is equivalent to an element of unique
C27_UniqueByNormalizedIdentity ==
    pout # <<>> =>
        LET list == pout[1].list
            unique == pout[1].unique
        IN /\ \E K \in SUBSET DOMAIN list : unique = SubSeqAt(list, K)
           /\ \A i, j \in DOMAIN unique :
                  i < j => ~EquivalentItems(unique[i], unique[j])
           /\ \A i \in DOMAIN list :
                  \E j \in DOMAIN unique : EquivalentItems(list[i], unique[j])

\* the values none of which is a number or a numeric string
NoNumericValue(values) ==
    \A i \in DOMAIN values :
        LET v == values[i]
        IN ~(v.ty = "number" /\ v.lead) /\ ~(v.ty = "string" /\ v.lead /\ ~v.rest)

\* C28: when none of the target values is numeric (also when there is no
\* value at all), average is 0 and min and max are Null
C28_NoNumericValues ==
    (pout # <<>> /\ NoNumericValue(pin.values)) =>
        /\ pout[1].average = Quotient(0, 1)
        /\ pout[1].min = RNull
        /\ pout[1].max = RNull

----------------------------------------------------------------------------
(* NoteSearchService.resolveTextReference on its own                       *)

\* texts handed to resolveTextReference: names in either case, with or
\* without surrounding blanks, the empty string, a number, a wikilink
TextInputs ==
    { Str(kind, FALSE, name, up, FALSE, FALSE) :
          kind \in {"text", "padded"}, name \in {"t1", "s2", "al", "x", ""},
          up \in BOOLEAN }
        \cup { ANumber, BareLink("t1") }

InitResolveText ==
    /\ InitIn({EmptyVault})
    /\ pin \in [text : TextInputs, scope : (SUBSET Files) \ {{}}]
    /\ pout = <<>>

InvokeResolveTextReference ==
    /\ pout = <<>>
    /\ pout' = <<ResolveTextReference(pin.text, pin.scope)>>
    /\ UNCHANGED <<fm, viewData, queue, timeout, timers, processing, runs, inflight, edits,
                   sinceSnap, lastEnq, lastDone, anyFail, escaped, mine, clean, pin>>

\* resolveTextReference on one text and one folder scope
SpecResolveText == InitResolveText /\ [][InvokeResolveTextReference]_vars

\* documents of the scope whose basename equals the text up to case
BasenameMatches(text, scope) ==
    {f \in scope : ToLowerCase(Basename(f)) = ToLowerCase(text)}

\* documents of the scope whose alias list contains the text up to case
AliasMatches(text, scope) ==
    {f \in scope :
        /\ AliasValue(f).t = "list"
        /\ \E i \in DOMAIN AliasValue(f).items :
              /\ AliasValue(f).items[i].kind # "num"
              /\ ToLowerCase(AliasValue(f).items[i]) = ToLowerCase(text)}

\* the first document of the vault's file list that belongs to the set
FirstFound(S) ==
    VaultOrder[CHOOSE i \in DOMAIN VaultOrder :
                   /\ VaultOrder[i] \in S
                   /\ \A j \in DOMAIN VaultOrder : VaultOrder[j] \in S => i <= j]

\* what the claim prescribes for the text as it is compared
Prescribed(text, scope) ==
    IF text.kind = "num" THEN {NoFile}
    ELSE IF BasenameMatches(text, scope) # {} THEN BasenameMatches(text, scope)
    ELSE IF AliasMatches(text, scope) # {} THEN {FirstFound(AliasMatches(text, scope))}
    ELSE {NoFile}

----------------------------------------------------------------------------
(* viewOptionsState, updateViewOptionsState and the isRelationColumn filter *)

\* The module-level viewOptionsState is kept in pin.viewOptionsState and the
\* answer of the filter in pout; pin.lastPass and pin.passes are history.

MaxPasses == 2

Views == {"v1", "v2"}

ProjectColumn == PropId("note", Name("project", FALSE, 0))
TitleColumn == PropId("note", Name("title", FALSE, 0))
FileColumn == PropId("file", Name("name", FALSE, 0))

\* config.getOrder() of the two views
GetOrder(view) ==
    IF view = "v1" THEN <<ProjectColumn, TitleColumn>> ELSE <<TitleColumn, FileColumn>>

\* the sampled rows of one column: references, or plain text
ColumnRows == { <<ListV(<<BareLink("t1")>>)>>, <<ScalarV(X)>> }

\* the folders under the base folder: none, or "projects"
ViewTrees == { {}, {[name |-> Name("project", FALSE, 1), children |-> TRUE]} }

NoPass == [done |-> FALSE, relations |-> {}]

InitViewOptions ==
    /\ InitIn({EmptyVault})
    /\ pin = [viewOptionsState |-> [currentViewColumns |-> <<>>,
                                    detectedRelationColumns |-> <<>>],
              lastPass |-> [v \in Views |-> NoPass],
              passes |-> 0]
    /\ pout = <<>>

\* updateViewOptionsState of one view: nothing without data, else both lists
\* of the shared state are replaced
UpdateViewOptionsState(view) ==
    /\ pout = <<>>
    /\ pin.passes < MaxPasses
    /\ \E hasData \in BOOLEAN, tree \in ViewTrees,
          rows \in [{GetOrder(view)[i] : i \in DOMAIN GetOrder(view)} -> ColumnRows] :
          LET orderedProperties == GetOrder(view)
              Detected(propId) ==
                  DetectRelationColumn(propId.ns = "note", rows[propId], Files,
                      MatchRelationSubfolder(propId, RootFolder, tree) # NoFolder)
              detected == SelectSeq(orderedProperties, Detected)
          IN pin' = IF ~hasData
                    THEN [pin EXCEPT !.passes = @ + 1]
                    ELSE [viewOptionsState |->
                              [currentViewColumns |-> orderedProperties,
                               detectedRelationColumns |-> detected],
                          lastPass |->
                              [pin.lastPass EXCEPT ![view] =
                                  [done |-> TRUE,
                                   relations |-> {detected[i] : i \in DOMAIN detected}]],
                          passes |-> pin.passes + 1]
    /\ UNCHANGED <<fm, viewData, queue, timeout, timers, processing, runs, inflight, edits,
                   sinceSnap, lastEnq, lastDone, anyFail, escaped, mine, clean, pout>>

\* getViewOptions, isRelationColumn(prop)
IsRelationColumn(state, prop) ==
    IF Len(state.detectedRelationColumns) > 0
    THEN \E i \in DOMAIN state.detectedRelationColumns :
             state.detectedRelationColumns[i] = prop
    ELSE prop.ns = "note"

\* the configuration UI of one view asks whether a property is selectable
QueryIsRelationColumn(view, prop) ==
    /\ pout = <<>>
    /\ pout' = <<[view |-> view, prop |-> prop,
                  accepted |-> IsRelationColumn(pin.viewOptionsState, prop)]>>
    /\ UNCHANGED <<fm, viewData, queue, timeout, timers, processing, runs, inflight, edits,
                   sinceSnap, lastEnq, lastDone, anyFail, escaped, mine, clean, pin>>

NextViewOptions ==
    \/ \E view \in Views : UpdateViewOptionsState(view)
    \/ \E view \in Views, prop \in {ProjectColumn, TitleColumn, FileColumn} :
          QueryIsRelationColumn(view, prop)

\* classification passes of two views followed by one query of the filter
SpecViewOptions == InitViewOptions /\ [][NextViewOptions]_vars

\* C30: once the querying view has made a classification pass, the filter
\* accepts a property only if that view's most recent pass labelled it a
\* relation, also when the pass found no relation and when other views exist
C30_AcceptsOnlyLabelledByOwnPass ==
    (pout # <<>> /\ pin.lastPass[pout[1].view].done /\ pout[1].accepted)
        => pout[1].prop \in pin.lastPass[pout[1].view].relations

====
